---- MODULE Spec2Model ----
(***************************************************************************)
(* A model of war3structs: the typed views over a lark parse tree of a     *)
(* JASS script (war3structs/plaintext/jass_mapping.py) and the cameras     *)
(* file codec (war3structs/CamerasFile.py).                                *)
(*                                                                         *)
(* Parse-tree nodes are Python objects, mutated in place and compared by   *)
(* identity, so the model keeps them in a heap: a sequence of node records *)
(* whose index is the object's identity.  A Token is a leaf               *)
(* [kind, type, value]; a Tree is [kind, cls, data, children] where cls is *)
(* the Python class of the object and children is a sequence of indices.   *)
(***************************************************************************)
EXTENDS Integers, Sequences, FiniteSets, TLC

VARIABLES heap, root, pc, nops, last, expect, made, result,
          value, encoded, decoded, reencoded

vars == <<heap, root, pc, nops, last, expect, made, result,
          value, encoded, decoded, reencoded>>

treeVars == <<heap, root, pc, nops, last, expect, made, result>>
treeVars_but_pc == <<heap, root, nops, last, expect, made, result>>
camVars == <<value, encoded, decoded, reencoded>>

\* Python's None
None == [kind |-> "None"]

(***************************************************************************)
(* Bounds of the model                                                     *)
(***************************************************************************)
\* number of mutating calls made on one tree
MaxOps == 2
\* length of a list handed to a setter
MaxList == 2
\* number of children of a declaration whose accessors are called
MaxChildren == 5
\* offsets handed to find_token_pair run from -MaxOffset to MaxOffset
MaxOffset == 2
\* number of camera records of a cameras file
MaxCameras == 2

(***************************************************************************)
(* Nodes and the heap                                                      *)
(***************************************************************************)
Token(t, v) == [kind |-> "Token", type |-> t, value |-> v]

Tree(cls, data, children) ==
  [kind |-> "Tree", cls |-> cls, data |-> data, children |-> children]

\* isinstance(node, Token) and node.type == t
isTokenOf(n, t) == n.kind = "Token" /\ n.type = t

\* a rule node with rule name d
isRule(n, d) == n.kind = "Tree" /\ n.data = d

\* The trees the external parser produces are written as heap fragments:
\* the nodes of one tree, children before their parent, the root last,
\* every one a plain lark Tree or a Token.  Leaf is a token's fragment and
\* P(data, frags) the rule node over the trees frags.
Leaf(t, v) == <<Token(t, v)>>

Shift(frag, k) ==
  [i \in 1..Len(frag) |->
     IF frag[i].kind = "Tree"
       THEN [frag[i] EXCEPT !.children = [j \in 1..Len(@) |-> @[j] + k]]
       ELSE frag[i]]

P(data, frags) ==
  LET n == Len(frags)
      off[i \in 0..n] == IF i = 0 THEN 0 ELSE off[i - 1] + Len(frags[i])
      cat[i \in 0..n] ==
        IF i = 0 THEN <<>> ELSE cat[i - 1] \o Shift(frags[i], off[i - 1])
  IN Append(cat[n], Tree("Tree", data, [i \in 1..n |-> off[i]]))

\* every node reachable from node id, id included
RECURSIVE Descendants(_, _)
Descendants(h, id) ==
  IF h[id].kind = "Token"
    THEN {id}
    ELSE {id} \cup UNION {Descendants(h, h[id].children[i]) :
                            i \in 1..Len(h[id].children)}

Range(s) == {s[i] : i \in 1..Len(s)}

\* the sequences of up to n distinct elements of S
RECURSIVE ListsOf(_, _)
ListsOf(S, n) ==
  IF n = 0 THEN {<<>>}
  ELSE LET shorter == ListsOf(S, n - 1)
       IN shorter \cup {Append(s, x) : s \in shorter, x \in S}

DistinctLists(S, n) ==
  {s \in ListsOf(S, n) : Cardinality(Range(s)) = Len(s)}

(***************************************************************************)
(* Python sequences: indices from 0, slices                                *)
(***************************************************************************)
\* seq[k] for 0 <= k < len(seq)
At(seq, k) == seq[k + 1]

\* seq[:k] for k >= 0
SliceTo(seq, k) == SubSeq(seq, 1, IF k < Len(seq) THEN k ELSE Len(seq))

\* seq[k:]; a negative k counts from the end
SliceFrom(seq, k) ==
  LET from == IF k >= 0 THEN k
              ELSE IF Len(seq) + k > 0 THEN Len(seq) + k ELSE 0
  IN SubSeq(seq, from + 1, Len(seq))

\* len(range(start, stop, step)) for step > 0
RangeLen(first, stop, step) ==
  IF stop > first THEN (stop - first + step - 1) \div step ELSE 0

(***************************************************************************)
(* class Tree: navigation over a node's direct children                    *)
(***************************************************************************)
\* find_all's predicate:
\*   n.type == type_or_rule if isinstance(n, Token) else n.data == type_or_rule
matches(n, type_or_rule) ==
  IF n.kind = "Token" THEN n.type = type_or_rule ELSE n.data = type_or_rule

find_all(h, self, type_or_rule) ==
  LET keep(c) == matches(h[c], type_or_rule)
  IN SelectSeq(h[self].children, keep)

\* What a call does: it returns an object, returns None or raises an
\* exception.
Return(v) == [kind |-> "return", value |-> v]

ReturnNone == None

Raise(e) == [kind |-> "raise", error |-> e]

\* seq[k]: a negative k counts from the end, an index outside the list
\* raises IndexError
Item(seq, k) ==
  IF 0 <= k /\ k < Len(seq) THEN Return(seq[k + 1])
  ELSE IF k < 0 /\ -Len(seq) <= k THEN Return(seq[Len(seq) + k + 1])
  ELSE Raise("IndexError")

\* node.type: a Token has one, a Tree has no such attribute
TypeOf(n) == IF n.kind = "Token" THEN Return(n.type) ELSE Raise("AttributeError")

\* a lookup that keeps the last token of the type, not the first
find_token_pair_last(h, self, token_type, offset) ==
  LET children == h[self].children
      hits == {i \in 0..(Len(children) - 1) : isTokenOf(h[At(children, i)], token_type)}
  IN IF hits = {} THEN ReturnNone
     ELSE LET index == CHOOSE i \in hits : \A j \in hits : j <= i
              other == Item(children, index + offset)
          IN IF other.kind = "raise" THEN other
             ELSE Return(<<At(children, index), other.value>>)

\* the first child that is a Token of token_type, with the child offset
\* places after it; None when there is no such token
find_token_pair(h, self, token_type, offset) ==
  LET children == h[self].children
      hits == {i \in 0..(Len(children) - 1) : isTokenOf(h[At(children, i)], token_type)}
  IN IF hits = {} THEN ReturnNone
     ELSE LET index == CHOOSE i \in hits : \A j \in hits : i <= j
              other == Item(children, index + offset)
          IN IF other.kind = "raise" THEN other
             ELSE Return(<<At(children, index), other.value>>)

(***************************************************************************)
(* class ScriptTree                                                        *)
(***************************************************************************)
types(h, self) == find_all(h, self, "type_declr")

natives(h, self) == find_all(h, self, "native_func_declr")

functions(h, self) == find_all(h, self, "func")

\* all_declrs.extend(declrs.find_all('global_var_declr')) for every block
RECURSIVE extend_all(_, _, _)
extend_all(h, blocks, i) ==
  IF i > Len(blocks) THEN <<>>
  ELSE find_all(h, blocks[i], "global_var_declr") \o extend_all(h, blocks, i + 1)

\* a getter that reads the first globals block only
globals_first_block(h, self) ==
  extend_all(h, SliceTo(find_all(h, self, "globals"), 1), 1)

globals(h, self) == extend_all(h, find_all(h, self, "globals"), 1)

\* a NEWLINE between the elements but none after the last
WithNewlinesBetween(h, list) ==
  LET n == Len(list)
  IN [heap |-> h \o [i \in 1..n |-> Token("NEWLINE", "\n")],
      out |-> [k \in 1..(IF n = 0 THEN 0 ELSE 2 * n - 1) |->
                 IF k % 2 = 1 THEN list[(k + 1) \div 2] ELSE Len(h) + (k \div 2)]]

\* for x in list: out.append(x); out.append(Token('NEWLINE', '\n'))
\* The new tokens are allocated at the end of the heap.
WithNewlines(h, list) ==
  LET n == Len(list)
  IN [heap |-> h \o [i \in 1..n |-> Token("NEWLINE", "\n")],
      out |-> [k \in 1..(2 * n) |->
                 IF k % 2 = 1 THEN list[(k + 1) \div 2] ELSE Len(h) + (k \div 2)]]

\* gs = GlobalTree('globals', [])
NewGlobalsBlock == Tree("GlobalTree", "globals", <<>>)

rebuild_tree(h, self, ts, ns, gs, fs) ==
  LET tns == WithNewlines(h, ts \o ns)
      gsId == Len(tns.heap) + 1
      h1 == Append(tns.heap, NewGlobalsBlock)
      h2 == h1 \o <<Token("GLOBALS", "globals"), Token("NEWLINE", "\n")>>
      body == WithNewlines(h2, gs)
      h3 == Append(body.heap, Token("ENDGLOBALS", "endglobals"))
      h4 == [h3 EXCEPT ![gsId].children =
                         <<gsId + 1, gsId + 2>> \o body.out \o <<Len(h3)>>]
      tail == WithNewlines(h4, fs)
  IN [tail.heap EXCEPT ![self].children = tns.out \o <<gsId>> \o tail.out]

types_setter(h, self, v) ==
  rebuild_tree(h, self, v, natives(h, self), globals(h, self), functions(h, self))

\* the new list handed to rebuild_tree in the place of the types
natives_setter_as_types(h, self, v) ==
  rebuild_tree(h, self, v, natives(h, self), globals(h, self), functions(h, self))

natives_setter(h, self, v) ==
  rebuild_tree(h, self, types(h, self), v, globals(h, self), functions(h, self))

globals_setter(h, self, v) ==
  rebuild_tree(h, self, types(h, self), natives(h, self), v, functions(h, self))

functions_setter(h, self, v) ==
  rebuild_tree(h, self, types(h, self), natives(h, self), globals(h, self), v)

(***************************************************************************)
(* class WithFuncDeclr (NativeTree, FunctionTree)                          *)
(***************************************************************************)
WithFuncDeclr_is_constant(h, self) ==
  h[At(h[self].children, 0)].type = "CONSTANT"

get_declr(h, self) ==
  IF ~WithFuncDeclr_is_constant(h, self)
    THEN At(h[self].children, 1)
    ELSE At(h[self].children, 2)

\* a getter whose args_stop is one too large
takes_off_by_one(h, self) ==
  LET children == h[get_declr(h, self)].children
      args_stop == Len(children) - 1
  IN IF args_stop = 3
       THEN <<>>
       ELSE [k \in 1..RangeLen(2, args_stop, 3) |->
               <<At(children, 2 + 3 * (k - 1)), At(children, 2 + 3 * (k - 1) + 1)>>]

\* the getter: a list of [type, name] pairs
takes(h, self) ==
  LET children == h[get_declr(h, self)].children
      args_stop == Len(children) - 2
  IN IF args_stop = 3
       THEN <<>>
       ELSE [k \in 1..RangeLen(2, args_stop, 3) |->
               <<At(children, 2 + 3 * (k - 1)), At(children, 2 + 3 * (k - 1) + 1)>>]

\* the setter.  One COMMA token is made per pair and the last one popped;
\* the tokens made are allocated at the end of the heap.
takes_setter(h, self, v) ==
  LET declr == get_declr(h, self)
      children == h[declr].children
      args_stop == Len(children) - 2
      n == Len(v)
      made_tokens ==
        IF n = 0 THEN <<Token("NOTHING", "nothing")>>
        ELSE [i \in 1..n |-> Token("COMMA", ",")]
      args ==
        IF n = 0 THEN <<Len(h) + 1>>
        ELSE [k \in 1..(3 * n - 1) |->
                IF k % 3 = 0 THEN Len(h) + (k \div 3)
                ELSE v[(k + 2) \div 3][k % 3]]
  IN [(h \o made_tokens) EXCEPT ![declr].children =
        SliceTo(children, 2) \o args \o SliceFrom(children, args_stop)]

(***************************************************************************)
(* class WithVarDeclr and class GlobalTree                                 *)
(***************************************************************************)
\* self.children[k].type == t, or the exception either step raises
ChildTypeIs(h, self, k, t) ==
  LET child == Item(h[self].children, k)
  IN IF child.kind = "raise" THEN child
     ELSE LET type == TypeOf(h[child.value])
          IN IF type.kind = "raise" THEN type ELSE Return(type.value = t)

is_array(h, self) == ChildTypeIs(h, self, -2, "ARRAY")

\* WithVarDeclr.value
value_getter(h, self) ==
  LET equals == find_token_pair(h, self, "EQUALS", 1)
  IN IF equals.kind = "raise" THEN equals
     ELSE IF equals = None THEN ReturnNone
     ELSE Return(equals.value[2])

GlobalTree_is_constant(h, self) == ChildTypeIs(h, self, 0, "CONSTANT")

\* an id that does not look at is_array
GlobalTree_id_no_array(h, self) ==
  LET constant == GlobalTree_is_constant(h, self)
  IN IF constant.kind = "raise" THEN constant
     ELSE IF constant.value THEN Item(h[self].children, 2)
     ELSE Item(h[self].children, 1)

\* if self.is_constant or self.is_array: is_array is read only when
\* is_constant is false
GlobalTree_id(h, self) ==
  LET constant == GlobalTree_is_constant(h, self)
      array == is_array(h, self)
  IN IF constant.kind = "raise" THEN constant
     ELSE IF constant.value THEN Item(h[self].children, 2)
     ELSE IF array.kind = "raise" THEN array
     ELSE IF array.value THEN Item(h[self].children, 2)
     ELSE Item(h[self].children, 1)

GlobalTree_type(h, self) ==
  LET constant == GlobalTree_is_constant(h, self)
  IN IF constant.kind = "raise" THEN constant
     ELSE IF constant.value THEN Item(h[self].children, 1)
     ELSE Item(h[self].children, 0)

(***************************************************************************)
(* class MapperTransformer (lark.Transformer): bottom-up, every rule node  *)
(* is rebuilt from its transformed children by the callback named after    *)
(* its rule, or as a plain lark Tree when there is no such callback;       *)
(* tokens are passed through.                                              *)
(***************************************************************************)
Callbacks ==
  {"start", "type_declr", "native_func_declr", "global_var_declr",
   "local_var_declr", "func"}

ClassOf(data) ==
  CASE data = "start" -> "ScriptTree"
    [] data = "type_declr" -> "TypeTree"
    [] data = "native_func_declr" -> "NativeTree"
    [] data = "global_var_declr" -> "GlobalTree"
    [] data = "local_var_declr" -> "LocalTree"
    [] data = "func" -> "FunctionTree"
    [] OTHER -> "Tree"

\* a transformer with no local_var_declr callback
call_userfunc_no_local(data, children) ==
  IF data \in Callbacks \ {"local_var_declr"}
    THEN Tree(ClassOf(data), data, children)
    ELSE Tree("Tree", data, children)

\* _call_userfunc: the callback's result, or __default__'s Tree(data, children)
call_userfunc(data, children) ==
  IF data \in Callbacks
    THEN Tree(ClassOf(data), data, children)
    ELSE Tree("Tree", data, children)

\* transform(tree) on the tree the parser built: heap h holds that tree's
\* nodes and nothing else, children before their parent, which is the order
\* in which the transformer visits them (_transform_tree: the children left
\* to right, then the node).  Each rule node is rebuilt by call_userfunc as
\* a new object; image(i) is the object that replaces node i.
transform(h, id) ==
  LET n == Len(h)
      rank(i) == Cardinality({j \in 1..i : h[j].kind = "Tree"})
      image(i) == IF h[i].kind = "Token" THEN i ELSE n + rank(i)
      ruleNode(k) == CHOOSE i \in 1..n : h[i].kind = "Tree" /\ rank(i) = k
      rebuilt(i) ==
        call_userfunc(h[i].data,
                      [j \in 1..Len(h[i].children) |-> image(h[i].children[j])])
  IN [heap |-> h \o [k \in 1..rank(n) |-> rebuilt(ruleNode(k))],
      id |-> image(id)]

(***************************************************************************)
(* war3structs.common: the field types of the binary formats.  A byte      *)
(* string is a sequence of numbers 0..255.  A float is [int |-> v], the    *)
(* number v, or [f32 |-> bytes], the single-precision number with that     *)
(* encoding when it is no whole number the model can hold.                 *)
(***************************************************************************)
\* Integer: 4 bytes, signed, little-endian
Integer_build(n) ==
  Return([i \in 1..4 |-> (n \div (256 ^ (i - 1))) % 256])

Integer_parse(bytes, pos) ==
  IF pos + 4 > Len(bytes) + 1 THEN Raise("StreamError")
  ELSE LET b(i) == bytes[pos + i]
           high == IF b(3) >= 128 THEN b(3) - 256 ELSE b(3)
       IN [kind |-> "return",
           value |-> b(0) + 256 * b(1) + 65536 * b(2) + 16777216 * high,
           pos |-> pos + 4]

\* the four bytes of sign 0, exponent field e and fraction f
F32Bytes(e, f) ==
  <<f % 256, (f \div 256) % 256, (f \div 65536) + 128 * (e % 2), e \div 2>>

\* Float: 4 bytes, IEEE-754 single precision, little-endian; a number with
\* more than 24 significant bits is rounded to nearest, ties to even
Float_build(x) ==
  IF "f32" \in DOMAIN x THEN Return(x.f32)
  ELSE IF x.int = 0 THEN Return(<<0, 0, 0, 0>>)
  ELSE LET v == x.int
           e == CHOOSE k \in 0..30 : 2 ^ k <= v /\ (k = 30 \/ v < 2 ^ (k + 1))
           q == IF e <= 23 THEN v * 2 ^ (23 - e) ELSE v \div 2 ^ (e - 23)
           r == IF e <= 23 THEN 0 ELSE v % 2 ^ (e - 23)
           half == IF e <= 23 THEN 1 ELSE 2 ^ (e - 24)
           up == r > half \/ (r = half /\ e > 23 /\ q % 2 = 1)
           sig == IF up THEN q + 1 ELSE q
       IN IF sig = 2 ^ 24
            THEN Return(F32Bytes(e + 1 + 127, 0))
            ELSE Return(F32Bytes(e + 127, sig - 2 ^ 23))

Float_parse(bytes, pos) ==
  IF pos + 4 > Len(bytes) + 1 THEN Raise("StreamError")
  ELSE LET b == SubSeq(bytes, pos, pos + 3)
           sign == b[4] \div 128
           e == (b[4] % 128) * 2 + b[3] \div 128
           f == (b[3] % 128) * 65536 + b[2] * 256 + b[1]
           sig == 2 ^ 23 + f
           x == IF b = <<0, 0, 0, 0>> THEN [int |-> 0]
                ELSE IF sign = 0 /\ e >= 150 /\ e <= 157
                  THEN [int |-> sig * 2 ^ (e - 150)]
                ELSE IF sign = 0 /\ e >= 127 /\ e < 150 /\ sig % 2 ^ (150 - e) = 0
                  THEN [int |-> sig \div 2 ^ (150 - e)]
                ELSE [f32 |-> b]
       IN [kind |-> "return", value |-> x, pos |-> pos + 4]

\* String: the bytes of the text, then the terminator 0
String_build(text) == Return(text \o <<0>>)

\* String: the bytes up to the first terminator at or after pos
String_parse(bytes, pos) ==
  IF \A i \in pos..Len(bytes) : bytes[i] # 0 THEN Raise("StreamError")
  ELSE LET stop == CHOOSE i \in pos..Len(bytes) :
                     bytes[i] = 0 /\ \A j \in pos..(i - 1) : bytes[j] # 0
       IN [kind |-> "return", value |-> SubSeq(bytes, pos, stop - 1),
           pos |-> stop + 1]

(***************************************************************************)
(* CamerasFile.py: Camera and CamerasFile                                  *)
(***************************************************************************)
\* the float fields of Camera, in the order of the Struct
CameraFloats ==
  <<"target_x", "target_y", "offset_z", "rotation", "angle_of_attack",
    "distance", "roll", "field_of_view", "far_clipping", "unknown">>

\* Camera.build: the ten floats in field order, then the name
Camera_build(c) ==
  LET n == Len(CameraFloats)
  IN Return([k \in 1..(4 * n) |->
               Float_build(c[CameraFloats[(k + 3) \div 4]]).value[((k - 1) % 4) + 1]]
            \o String_build(c.name).value)

\* Camera.parse at pos: the fields in the same order
Camera_parse(bytes, pos) ==
  LET n == Len(CameraFloats)
      name == String_parse(bytes, pos + 4 * n)
  IN IF pos + 4 * n > Len(bytes) + 1 THEN Raise("StreamError")
     ELSE IF name.kind = "raise" THEN name
     ELSE [kind |-> "return",
           value |-> [f \in Range(CameraFloats) \cup {"name"} |->
                        IF f = "name" THEN name.value
                        ELSE LET k == CHOOSE k \in 1..n : CameraFloats[k] = f
                             IN Float_parse(bytes, pos + 4 * (k - 1)).value],
           pos |-> name.pos]

\* for each camera: Camera.build
RECURSIVE Cameras_build(_, _)
Cameras_build(cameras, i) ==
  IF i > Len(cameras) THEN <<>>
  ELSE Camera_build(cameras[i]).value \o Cameras_build(cameras, i + 1)

\* an Array that builds whatever number of elements it is given
Array_build_unchecked(count, cameras) == Return(Cameras_build(cameras, 1))

\* Array(this.cameras_count, Camera).build: the count comes from the value
\* being built and must be the number of elements
Array_build(count, cameras) ==
  IF ~(0 <= count) THEN Raise("RangeError")
  ELSE IF Len(cameras) # count THEN Raise("RangeError")
  ELSE Return(Cameras_build(cameras, 1))

\* an Array that parses one element fewer than the count
RECURSIVE Array_parse_one_short(_, _, _, _)
Array_parse_one_short(count, bytes, pos, acc) ==
  IF ~(0 <= count) THEN Raise("RangeError")
  ELSE IF Len(acc) >= count - 1 THEN [kind |-> "return", value |-> acc, pos |-> pos]
  ELSE LET c == Camera_parse(bytes, pos)
       IN IF c.kind = "raise" THEN c
          ELSE Array_parse_one_short(count, bytes, c.pos, Append(acc, c.value))

\* Array(this.cameras_count, Camera).parse: count elements, one after another
RECURSIVE Array_parse(_, _, _, _)
Array_parse(count, bytes, pos, acc) ==
  IF ~(0 <= count) THEN Raise("RangeError")
  ELSE IF Len(acc) = count THEN [kind |-> "return", value |-> acc, pos |-> pos]
  ELSE LET c == Camera_parse(bytes, pos)
       IN IF c.kind = "raise" THEN c
          ELSE Array_parse(count, bytes, c.pos, Append(acc, c.value))

\* CamerasFile.build(v): every field is taken from v by its name
CamerasFile_build(v) ==
  IF {"version", "cameras_count", "cameras"} \ DOMAIN v # {}
    THEN Raise("KeyError")
    ELSE LET cameras == Array_build(v.cameras_count, v.cameras)
         IN IF cameras.kind = "raise" THEN cameras
            ELSE Return(Integer_build(v.version).value
                          \o Integer_build(v.cameras_count).value
                          \o cameras.value)

\* CamerasFile.parse(bytes); bytes after the last record are not read
CamerasFile_parse(bytes) ==
  LET version == Integer_parse(bytes, 1)
      cameras_count == Integer_parse(bytes, 5)
      cameras == Array_parse(cameras_count.value, bytes, 9, <<>>)
  IN IF version.kind = "raise" THEN version
     ELSE IF cameras_count.kind = "raise" THEN cameras_count
     ELSE IF cameras.kind = "raise" THEN Raise(cameras.error)
     ELSE Return([version |-> version.value,
                  cameras_count |-> cameras_count.value,
                  cameras |-> cameras.value])

(***************************************************************************)
(* The trees the parser hands over.  Child order follows the positions the *)
(* typed views index: a signature node is                                  *)
(*   [name, TAKES, NOTHING | type name (COMMA type name)*, RETURNS, ret]   *)
(***************************************************************************)
NEWLINE == Leaf("NEWLINE", "\n")

func_declr(name, params, ret) ==
  P("func_declr",
    <<Leaf("ID", name), Leaf("TAKES", "takes")>> \o params
      \o <<Leaf("RETURNS", "returns"), ret>>)

TakesNothing == <<Leaf("NOTHING", "nothing")>>

OneParam == <<Leaf("ID", "integer"), Leaf("ID", "a")>>

TwoParams ==
  <<Leaf("ID", "integer"), Leaf("ID", "a"), Leaf("COMMA", ","),
    Leaf("ID", "real"), Leaf("ID", "b")>>

type_declr ==
  P("type_declr",
    <<Leaf("TYPE", "type"), Leaf("ID", "unit"), Leaf("EXTENDS", "extends"),
      Leaf("ID", "handle")>>)

native_func_declr(constant, params, ret) ==
  P("native_func_declr",
    (IF constant THEN <<Leaf("CONSTANT", "constant")>> ELSE <<>>)
      \o <<Leaf("NATIVE", "native"), func_declr("N", params, ret)>>)

global_var_declr ==
  P("global_var_declr", <<Leaf("ID", "integer"), Leaf("ID", "g")>>)

local_var_declr ==
  P("local_var_declr",
    <<Leaf("LOCAL", "local"), Leaf("ID", "integer"), Leaf("ID", "l")>>)

func(constant, params, ret) ==
  P("func",
    (IF constant THEN <<Leaf("CONSTANT", "constant")>> ELSE <<>>)
      \o <<Leaf("FUNCTION", "function"), func_declr("F", params, ret), NEWLINE,
           P("locals", <<local_var_declr, NEWLINE>>),
           P("statements", <<P("return", <<Leaf("RETURN", "return")>>), NEWLINE>>),
           Leaf("ENDFUNCTION", "endfunction")>>)

\* every tree of nodes followed by a NEWLINE token
Lines(nodes) ==
  [k \in 1..(2 * Len(nodes)) |->
     IF k % 2 = 1 THEN nodes[(k + 1) \div 2] ELSE NEWLINE]

\* a globals block of n declarations
globals_block(n) ==
  P("globals",
    <<Leaf("GLOBALS", "globals"), NEWLINE>>
      \o Lines([i \in 1..n |-> global_var_declr])
      \o <<Leaf("ENDGLOBALS", "endglobals")>>)

\* the declarations the scripts below are made of
NativeNothing ==
  native_func_declr(FALSE, TakesNothing, Leaf("NOTHING", "nothing"))

FuncOneParam == func(FALSE, OneParam, Leaf("ID", "integer"))

Block0 == globals_block(0)

Block1 == globals_block(1)

Block2 == globals_block(2)

\* a script: its top-level declarations, each followed by a NEWLINE
start(declrs) == P("start", Lines(declrs))

ScriptEmpty == start(<<>>)

ScriptTwoBlocks ==
  start(<<type_declr, NativeNothing, Block1, Block1, FuncOneParam>>)

ScriptOneBlock == start(<<NativeNothing, Block2>>)

ScriptThreeBlocks == start(<<type_declr, Block1, Block0, Block1>>)

ScriptNoGlobals == start(<<Block0, FuncOneParam>>)

Scripts ==
  {ScriptEmpty, ScriptTwoBlocks, ScriptOneBlock, ScriptThreeBlocks,
   ScriptNoGlobals}

(***************************************************************************)
(* The script root: the rewrite pass, then calls of its setters            *)
(***************************************************************************)
\* the typed declarations of one rule kind a caller can hold
Pool(h, rule) ==
  {i \in 1..Len(h) : isRule(h[i], rule) /\ h[i].cls = ClassOf(rule)}

Collections(h, self) ==
  [types |-> types(h, self), natives |-> natives(h, self),
   globals |-> globals(h, self), functions |-> functions(h, self)]

NoCall == [op |-> "none"]

InitScript ==
  /\ \E s \in Scripts : heap = s /\ root = Len(s)
  /\ pc = "parsed"
  /\ nops = 0
  /\ last = NoCall
  /\ expect = None
  /\ made = {}
  /\ result = None
  /\ value = None /\ encoded = None /\ decoded = None /\ reencoded = None

\* tree = MapperTransformer().transform(tree)
Rewrite ==
  /\ pc = "parsed"
  /\ LET r == transform(heap, root)
     IN /\ heap' = r.heap
        /\ root' = r.id
        /\ made' = (Len(heap) + 1)..Len(r.heap)
        /\ expect' = Collections(r.heap, r.id)
  /\ pc' = "mapped"
  /\ last' = [op |-> "transform", parsed |-> root]
  /\ UNCHANGED <<nops, result, camVars>>

\* what a call on the root records: the four lists rebuild_tree is given and
\* the root's children before the call
Call(op, ts, ns, gs, fs) ==
  [op |-> op, types |-> ts, natives |-> ns, globals |-> gs, functions |-> fs,
   before |-> heap[root].children, read |-> Collections(heap, root)]

Mutating == pc = "mapped" /\ nops < MaxOps

SetTypes ==
  /\ Mutating
  /\ \E v \in DistinctLists(Pool(heap, "type_declr"), MaxList) :
       /\ heap' = types_setter(heap, root, v)
       /\ last' = Call("types", v, natives(heap, root), globals(heap, root),
                       functions(heap, root))
       /\ expect' = [expect EXCEPT !.types = v]
  /\ nops' = nops + 1
  /\ UNCHANGED <<root, pc, made, result, camVars>>

SetNatives ==
  /\ Mutating
  /\ \E v \in DistinctLists(Pool(heap, "native_func_declr"), MaxList) :
       /\ heap' = natives_setter(heap, root, v)
       /\ last' = Call("natives", types(heap, root), v, globals(heap, root),
                       functions(heap, root))
       /\ expect' = [expect EXCEPT !.natives = v]
  /\ nops' = nops + 1
  /\ UNCHANGED <<root, pc, made, result, camVars>>

SetGlobals ==
  /\ Mutating
  /\ \E v \in DistinctLists(Pool(heap, "global_var_declr"), MaxList) :
       /\ heap' = globals_setter(heap, root, v)
       /\ last' = Call("globals", types(heap, root), natives(heap, root), v,
                       functions(heap, root))
       /\ expect' = [expect EXCEPT !.globals = v]
  /\ nops' = nops + 1
  /\ UNCHANGED <<root, pc, made, result, camVars>>

SetFunctions ==
  /\ Mutating
  /\ \E v \in DistinctLists(Pool(heap, "func"), MaxList) :
       /\ heap' = functions_setter(heap, root, v)
       /\ last' = Call("functions", types(heap, root), natives(heap, root),
                       globals(heap, root), v)
       /\ expect' = [expect EXCEPT !.functions = v]
  /\ nops' = nops + 1
  /\ UNCHANGED <<root, pc, made, result, camVars>>

\* a direct call of rebuild_tree
RebuildTree ==
  /\ Mutating
  /\ \E ts \in DistinctLists(Pool(heap, "type_declr"), MaxList),
        ns \in DistinctLists(Pool(heap, "native_func_declr"), MaxList),
        gs \in DistinctLists(Pool(heap, "global_var_declr"), MaxList),
        fs \in DistinctLists(Pool(heap, "func"), MaxList) :
       /\ heap' = rebuild_tree(heap, root, ts, ns, gs, fs)
       /\ last' = Call("rebuild_tree", ts, ns, gs, fs)
       /\ expect' = [types |-> ts, natives |-> ns, globals |-> gs, functions |-> fs]
  /\ nops' = nops + 1
  /\ UNCHANGED <<root, pc, made, result, camVars>>

NextScript ==
  \/ Rewrite
  \/ SetTypes
  \/ SetNatives
  \/ SetGlobals
  \/ SetFunctions
  \/ RebuildTree

SpecScript == InitScript /\ [][NextScript]_vars

(***************************************************************************)
(* Properties of the script root (SpecScript)                              *)
(***************************************************************************)
Setters == {"types", "natives", "globals", "functions"}

Rebuilt == last.op \in Setters \cup {"rebuild_tree"}

\* seg is list with one NEWLINE token after every element
IsLines(h, seg, list) ==
  /\ Len(seg) = 2 * Len(list)
  /\ \A i \in 1..Len(list) :
       seg[2 * i - 1] = list[i] /\ isTokenOf(h[seg[2 * i]], "NEWLINE")

\* block is a globals block: a GLOBALS marker, lead NEWLINE tokens, the
\* declarations gs each followed by a NEWLINE, an ENDGLOBALS marker
IsGlobalsBlock(h, block, gs, lead) ==
  /\ isRule(h[block], "globals")
  /\ LET bc == h[block].children
     IN /\ Len(bc) = 2 + lead + 2 * Len(gs)
        /\ isTokenOf(h[bc[1]], "GLOBALS")
        /\ \A i \in 2..(1 + lead) : isTokenOf(h[bc[i]], "NEWLINE")
        /\ IsLines(h, SubSeq(bc, 2 + lead, Len(bc) - 1), gs)
        /\ isTokenOf(h[bc[Len(bc)]], "ENDGLOBALS")

\* the root's children are exactly the canonical emission of the four lists
IsCanonical(h, self, ts, ns, gs, fs, lead) ==
  LET ch == h[self].children
      tn == ts \o ns
      k == 2 * Len(tn)
  IN /\ Len(ch) = k + 1 + 2 * Len(fs)
     /\ IsLines(h, SubSeq(ch, 1, k), tn)
     /\ IsGlobalsBlock(h, ch[k + 1], gs, lead)
     /\ IsLines(h, SubSeq(ch, k + 2, Len(ch)), fs)

\* the globals blocks among the root's children, in order
Blocks(h, self) ==
  LET isBlock(c) == isRule(h[c], "globals")
  IN SelectSeq(h[self].children, isBlock)

\* the places (block, position in the block) of the global_var_declr nodes
\* under the root's globals blocks
DeclPlaces(h, self) ==
  {<<b, j>> \in (1..Len(Blocks(h, self))) \X (1..Len(h)) :
     /\ j <= Len(h[Blocks(h, self)[b]].children)
     /\ isRule(h[h[Blocks(h, self)[b]].children[j]], "global_var_declr")}

PlaceBefore(p, q) == p[1] < q[1] \/ (p[1] = q[1] /\ p[2] < q[2])

\* list holds every declaration of every block once, in source order
IsConcatenationOfBlocks(h, self, list) ==
  /\ Len(list) = Cardinality(DeclPlaces(h, self))
  /\ \A p \in DeclPlaces(h, self) :
       LET before == Cardinality({q \in DeclPlaces(h, self) : PlaceBefore(q, p)})
       IN list[before + 1] = h[Blocks(h, self)[p[1]]].children[p[2]]

\* C2: with two or more globals blocks under the root, reading globals gives
\* the concatenation of every block's global_var_declr children in source
\* order; after globals is assigned a list, the root has exactly one globals
\* block, that block's global_var_declr children are the assigned list, and
\* none of the former blocks is a child of the root.
C2_GlobalsFlattenedThenCollapsed ==
  /\ (pc = "mapped" /\ Len(Blocks(heap, root)) >= 2)
       => IsConcatenationOfBlocks(heap, root, globals(heap, root))
  /\ last.op = "globals" =>
       /\ Len(Blocks(heap, root)) = 1
       /\ find_all(heap, Blocks(heap, root)[1], "global_var_declr") = last.globals
       /\ \A c \in Range(last.before) :
            isRule(heap[c], "globals") => c \notin Range(heap[root].children)

C2_Witness ==
  /\ last.op = "globals"
  /\ Cardinality({c \in Range(last.before) : isRule(heap[c], "globals")}) >= 2
  /\ Len(last.read.globals) = 2
  /\ Len(last.globals) = 2
  /\ last.globals # last.read.globals

\* C4: every typed view in the tree was made by the rewrite pass from a node
\* of its own rule kind.
C4_TypedViewsOnlyFromRewritePass ==
  \A id \in Descendants(heap, root) :
    (heap[id].kind = "Tree" /\ heap[id].cls # "Tree")
      => (id \in made /\ heap[id].cls = ClassOf(heap[id].data))

\* t is the rewritten image of the parsed node p: tokens are the same
\* object; a rule node keeps its rule name and its children's images in
\* order, and is a typed view exactly when its rule is one of the six.
RECURSIVE IsImage(_, _, _)
IsImage(h, p, t) ==
  IF h[p].kind = "Token"
    THEN t = p
    ELSE /\ h[t].kind = "Tree"
         /\ h[t].data = h[p].data
         /\ h[t].cls = (CASE h[p].data = "start" -> "ScriptTree"
                          [] h[p].data = "type_declr" -> "TypeTree"
                          [] h[p].data = "native_func_declr" -> "NativeTree"
                          [] h[p].data = "global_var_declr" -> "GlobalTree"
                          [] h[p].data = "local_var_declr" -> "LocalTree"
                          [] h[p].data = "func" -> "FunctionTree"
                          [] OTHER -> "Tree")
         /\ Len(h[t].children) = Len(h[p].children)
         /\ \A i \in 1..Len(h[p].children) :
              IsImage(h, h[p].children[i], h[t].children[i])

\* C5: the rewrite pass turns every node of the six recognised rules into
\* the typed view of that rule, with the same rule name and children, and
\* leaves every other node a plain tree with its rule name and children.
C5_RewriteReplacesExactlySixKinds ==
  last.op = "transform" => IsImage(heap, last.parsed, root)

C5_Witness ==
  /\ last.op = "transform"
  /\ {heap[id].cls : id \in {d \in Descendants(heap, root) : heap[d].kind = "Tree"}}
       = {"ScriptTree", "TypeTree", "NativeTree", "GlobalTree", "LocalTree",
          "FunctionTree", "Tree"}

\* C7 as stated: the globals block is GLOBALS, the declarations each with a
\* NEWLINE, ENDGLOBALS.
C7_RebuildLayoutAsClaimed ==
  Rebuilt => IsCanonical(heap, root, last.types, last.natives, last.globals,
                         last.functions, 0)

\* C7 amended: after a setter or rebuild_tree the root's children are the
\* types then the natives, each followed by a NEWLINE, one globals block
\* (GLOBALS, a NEWLINE, the declarations each followed by a NEWLINE,
\* ENDGLOBALS), then the functions each followed by a NEWLINE.
C7_RebuildLayout ==
  Rebuilt => IsCanonical(heap, root, last.types, last.natives, last.globals,
                         last.functions, 1)

C7_Witness ==
  /\ last.op = "natives"
  /\ last.types # <<>> /\ last.natives # <<>>
  /\ last.globals # <<>> /\ last.functions # <<>>
  /\ \E c \in Range(last.before) : c \notin Range(heap[root].children)

\* C10: each getter returns the list last assigned to its collection, or the
\* list it returned after the rewrite pass if none was; an assignment leaves
\* the other three getters' lists as they were.
C10_GettersReturnLastAssigned ==
  pc = "mapped" => Collections(heap, root) = expect

C10_Witness ==
  /\ nops = 2
  /\ last.op = "functions"
  /\ last.functions = <<>>
  /\ last.read.functions # <<>>
  /\ expect.types # <<>> /\ expect.natives # <<>> /\ expect.globals # <<>>

(***************************************************************************)
(* Function-like declarations: the rewrite pass, then assignments to takes *)
(***************************************************************************)
ParamShapes == {TakesNothing, OneParam, TwoParams}

ReturnShapes == {Leaf("NOTHING", "nothing"), Leaf("ID", "integer")}

\* scripts of one native declaration or one function
FuncScripts ==
  {start(<<native_func_declr(c, ps, r)>>) :
     c \in BOOLEAN, ps \in ParamShapes, r \in ReturnShapes}
  \cup {start(<<func(c, ps, r)>>) :
          c \in BOOLEAN, ps \in {TakesNothing, TwoParams}, r \in ReturnShapes}

InitFunc ==
  /\ \E s \in FuncScripts : heap = s /\ root = Len(s)
  /\ pc = "parsed"
  /\ nops = 0
  /\ last = NoCall
  /\ expect = None
  /\ made = {}
  /\ result = None
  /\ value = None /\ encoded = None /\ decoded = None /\ reencoded = None

\* A caller's argument is a pair it read from takes or a pair of new tokens,
\* written <<0, 0>> until the tokens are allocated.
FreshPair == <<0, 0>>

\* the list of pairs for the chosen arguments, new tokens allocated in order
Materialise(h, choice) ==
  LET fresh(i) == Cardinality({j \in 1..i : choice[j] = FreshPair})
      n == Len(choice)
  IN [heap |-> h \o [k \in 1..(2 * fresh(n)) |->
                       IF k % 2 = 1 THEN Token("ID", "unit")
                       ELSE Token("ID", "u")],
      pairs |-> [i \in 1..n |->
                   IF choice[i] = FreshPair
                     THEN <<Len(h) + 2 * fresh(i) - 1, Len(h) + 2 * fresh(i)>>
                     ELSE choice[i]]]

\* lists in which no pair read from the tree occurs twice
ArgumentLists(h, self) ==
  {c \in ListsOf(Range(takes(h, self)) \cup {FreshPair}, MaxList) :
     \A i, j \in 1..Len(c) : (i # j /\ c[i] = c[j]) => c[i] = FreshPair}

SetTakes ==
  /\ Mutating
  /\ \E self \in Pool(heap, "native_func_declr") \cup Pool(heap, "func") :
       \E choice \in ArgumentLists(heap, self) :
         LET m == Materialise(heap, choice)
         IN /\ heap' = takes_setter(m.heap, self, m.pairs)
            /\ last' = [op |-> "takes", self |-> self, value |-> m.pairs,
                        read |-> takes(heap, self),
                        declr |-> heap[get_declr(heap, self)].children]
  /\ nops' = nops + 1
  /\ UNCHANGED <<root, pc, expect, made, result, camVars>>

NextFunc ==
  \/ Rewrite
  \/ SetTakes

SpecFunc == InitFunc /\ [][NextFunc]_vars

\* the signature node of a declaration, found by its shape: the child after
\* the NATIVE or FUNCTION keyword
SignatureOf(h, self) ==
  LET i == CHOOSE i \in 1..Len(h[self].children) :
             isTokenOf(h[h[self].children[i]], "NATIVE")
               \/ isTokenOf(h[h[self].children[i]], "FUNCTION")
  IN h[self].children[i + 1]

\* the children between the first two and the last two
ParameterRegion(h, declr) ==
  SubSeq(h[declr].children, 3, Len(h[declr].children) - 2)

\* C1: after takes is assigned a list of (type, name) pairs, reading takes
\* gives that list; after it is assigned the empty list the signature's
\* parameter region is one NOTHING token.  The first two and the last two
\* children of the signature stay as they were.
C1_TakesRoundTrip ==
  last.op = "takes" =>
    LET declr == SignatureOf(heap, last.self)
    IN /\ takes(heap, last.self) = last.value
       /\ last.value = <<>> =>
            /\ Len(ParameterRegion(heap, declr)) = 1
            /\ isTokenOf(heap[ParameterRegion(heap, declr)[1]], "NOTHING")
       /\ SubSeq(heap[declr].children, 1, 2) = SubSeq(last.declr, 1, 2)
       /\ SliceFrom(heap[declr].children, Len(heap[declr].children) - 2)
            = SliceFrom(last.declr, Len(last.declr) - 2)

\* a constant function was given two pairs, one of new tokens, they were
\* read back, and it is given the empty list
C1_Witness ==
  /\ last.op = "takes"
  /\ nops = 2
  /\ Len(last.read) = 2
  /\ \E i \in 1..2 : heap[last.read[i][2]].value = "u"
  /\ last.value = <<>>
  /\ isTokenOf(heap[heap[last.self].children[1]], "CONSTANT")
  /\ heap[last.self].cls = "FunctionTree"

(***************************************************************************)
(* A global variable declaration and the calls of its accessors            *)
(***************************************************************************)
\* The children a declaration can have: the tokens of the grammar's
\* global_var_declr and an expression node.
ChildOf(symbol) ==
  CASE symbol = "CONSTANT" -> Token("CONSTANT", "constant")
    [] symbol = "type" -> Token("ID", "integer")
    [] symbol = "name" -> Token("ID", "x")
    [] symbol = "ARRAY" -> Token("ARRAY", "array")
    [] symbol = "EQUALS" -> Token("EQUALS", "=")
    [] symbol = "expr" -> Tree("Tree", "expr", <<>>)

Symbols == {"CONSTANT", "type", "name", "ARRAY", "EQUALS", "expr"}

InitVar ==
  /\ \E shape \in ListsOf(Symbols, MaxChildren) :
       /\ heap = [i \in 1..Len(shape) |-> ChildOf(shape[i])]
                   \o <<Tree("GlobalTree", "global_var_declr",
                             [i \in 1..Len(shape) |-> i])>>
       /\ root = Len(shape) + 1
       /\ expect = shape
  /\ pc = "mapped"
  /\ nops = 0
  /\ last = NoCall
  /\ made = {}
  /\ result = None
  /\ value = None /\ encoded = None /\ decoded = None /\ reencoded = None

GetIsConstant ==
  /\ pc = "mapped"
  /\ result' = GlobalTree_is_constant(heap, root)
  /\ last' = [op |-> "is_constant"]
  /\ pc' = "called"
  /\ UNCHANGED <<heap, root, nops, expect, made, camVars>>

GetId ==
  /\ pc = "mapped"
  /\ result' = GlobalTree_id(heap, root)
  /\ last' = [op |-> "id"]
  /\ pc' = "called"
  /\ UNCHANGED <<heap, root, nops, expect, made, camVars>>

GetType ==
  /\ pc = "mapped"
  /\ result' = GlobalTree_type(heap, root)
  /\ last' = [op |-> "type"]
  /\ pc' = "called"
  /\ UNCHANGED <<heap, root, nops, expect, made, camVars>>

GetValue ==
  /\ pc = "mapped"
  /\ result' = value_getter(heap, root)
  /\ last' = [op |-> "value"]
  /\ pc' = "called"
  /\ UNCHANGED <<heap, root, nops, expect, made, camVars>>

FindTokenPair ==
  /\ pc = "mapped"
  /\ \E token_type \in {"EQUALS", "CONSTANT", "expr"},
        offset \in (-MaxOffset)..MaxOffset :
       /\ result' = find_token_pair(heap, root, token_type, offset)
       /\ last' = [op |-> "find_token_pair", token_type |-> token_type,
                   offset |-> offset]
  /\ pc' = "called"
  /\ UNCHANGED <<heap, root, nops, expect, made, camVars>>

NextVar ==
  \/ GetIsConstant
  \/ GetId
  \/ GetType
  \/ GetValue
  \/ FindTokenPair

SpecVar == InitVar /\ [][NextVar]_vars

\* the shapes the grammar gives a global variable declaration
Plain == <<"type", "name">>
Array == <<"type", "ARRAY", "name">>
Initialised == <<"type", "name", "EQUALS", "expr">>
ConstantInitialised == <<"CONSTANT", "type", "name", "EQUALS", "expr">>
GrammarShapes == {Plain, Array, Initialised, ConstantInitialised}

\* the position (from 1) of a symbol that occurs once in the declaration
PlaceOf(symbol) == CHOOSE i \in 1..Len(expect) : expect[i] = symbol

\* C8: is_constant is true iff the first child is a CONSTANT token; id is
\* the child at index 2 when the declaration is constant or array and at
\* index 1 otherwise; type is the child at index 1 when constant and at
\* index 0 otherwise.  For the grammar's shapes id and type are the declared
\* name and type, and value of a constant with an initialiser is the node
\* after EQUALS.
C8_GlobalAccessors ==
  LET n == Len(expect)
      firstIsConstant == n >= 1 /\ expect[1] = "CONSTANT"
      isArray == n >= 2 /\ expect[n - 1] = "ARRAY"
  IN /\ (last.op = "is_constant" /\ result.kind = "return")
          => result.value = firstIsConstant
     /\ (last.op = "id" /\ result.kind = "return")
          => result.value = (IF firstIsConstant \/ isArray THEN 3 ELSE 2)
     /\ (last.op = "type" /\ result.kind = "return")
          => result.value = (IF firstIsConstant THEN 2 ELSE 1)
     /\ (last.op = "is_constant" /\ expect \in GrammarShapes)
          => result = Return(expect = ConstantInitialised)
     /\ (last.op = "id" /\ expect \in GrammarShapes)
          => result = Return(PlaceOf("name"))
     /\ (last.op = "type" /\ expect \in GrammarShapes)
          => result = Return(PlaceOf("type"))
     /\ (last.op = "value" /\ expect = ConstantInitialised)
          => result = Return(PlaceOf("EQUALS") + 1) /\ result # None

C8_Witness ==
  /\ expect = ConstantInitialised
  /\ last.op = "value"
  /\ result.kind = "return"
  /\ heap[result.value].kind = "Tree"

\* the first position (from 0) of a child that is a token of the type
FirstToken(token_type) ==
  CHOOSE i \in 0..(Len(expect) - 1) :
    /\ isTokenOf(heap[heap[root].children[i + 1]], token_type)
    /\ \A j \in 0..(i - 1) : ~isTokenOf(heap[heap[root].children[j + 1]], token_type)

HasToken(token_type) ==
  \E c \in Range(heap[root].children) : isTokenOf(heap[c], token_type)

\* C9 as stated: None when no direct child is a token of the type, else the
\* pair of the first such token and the child at position i+offset.
C9_TokenPairAsClaimed ==
  last.op = "find_token_pair" =>
    IF ~HasToken(last.token_type)
      THEN result = ReturnNone
      ELSE LET i == FirstToken(last.token_type)
           IN /\ 0 <= i + last.offset /\ i + last.offset < Len(heap[root].children)
              /\ result = Return(<<heap[root].children[i + 1],
                                   heap[root].children[i + last.offset + 1]>>)

\* C9 amended: None when no direct child is a token of the type; else, with
\* i the first such position and n the number of children, the pair of that
\* token and the child at i+offset when 0 <= i+offset < n, the pair of
\* that token and the child at n+i+offset when -n <= i+offset < 0, and an
\* IndexError otherwise.
C9_TokenPair ==
  last.op = "find_token_pair" =>
    IF ~HasToken(last.token_type)
      THEN result = ReturnNone
      ELSE LET i == FirstToken(last.token_type)
               n == Len(heap[root].children)
               k == i + last.offset
           IN IF 0 <= k /\ k < n
                THEN result = Return(<<heap[root].children[i + 1],
                                       heap[root].children[k + 1]>>)
              ELSE IF -n <= k /\ k < 0
                THEN result = Return(<<heap[root].children[i + 1],
                                       heap[root].children[n + k + 1]>>)
              ELSE result = Raise("IndexError")

C9_Witness ==
  /\ last.op = "find_token_pair"
  /\ last.token_type = "EQUALS"
  /\ last.offset = 1
  /\ Cardinality({i \in 1..Len(expect) : expect[i] = "EQUALS"}) = 2
  /\ expect[1] # "EQUALS"
  /\ result.kind = "return"

(***************************************************************************)
(* The cameras file: a value is built, the bytes parsed, the result built  *)
(***************************************************************************)
\* the names of cameras: "", "a", "ab", and two that hold the terminator
Names == {<<>>, <<97>>, <<97, 98>>, <<97, 0, 98>>, <<0>>}

\* a whole number single precision holds, and one it has to round
TargetXs == {[int |-> 3], [int |-> 16777217]}

Cameras ==
  {[target_x |-> x, target_y |-> [int |-> 2], offset_z |-> [int |-> 0],
    rotation |-> [int |-> 90], angle_of_attack |-> [int |-> 304],
    distance |-> [int |-> 1650], roll |-> [int |-> 1],
    field_of_view |-> [int |-> 70], far_clipping |-> [int |-> 5000],
    unknown |-> [int |-> 100], name |-> n] : x \in TargetXs, n \in Names}

\* the values handed to build: with a count that may differ from the number
\* of cameras, or with none
Values ==
  {[version |-> v, cameras_count |-> n, cameras |-> cs] :
     v \in {0, -1}, n \in (-1)..(MaxCameras + 1),
     cs \in ListsOf(Cameras, MaxCameras)}
  \cup {[version |-> v, cameras |-> cs] :
          v \in {0, -1}, cs \in ListsOf(Cameras, MaxCameras)}

InitCam ==
  /\ value \in Values
  /\ encoded = None /\ decoded = None /\ reencoded = None
  /\ pc = "value"
  /\ heap = <<>> /\ root = 0 /\ nops = 0 /\ last = NoCall
  /\ expect = None /\ made = {} /\ result = None

\* encoded = CamerasFile.build(value)
Encode ==
  /\ pc = "value"
  /\ encoded' = CamerasFile_build(value)
  /\ pc' = "encoded"
  /\ UNCHANGED <<value, decoded, reencoded, treeVars_but_pc>>

\* decoded = CamerasFile.parse(encoded)
Decode ==
  /\ pc = "encoded"
  /\ encoded.kind = "return"
  /\ decoded' = CamerasFile_parse(encoded.value)
  /\ pc' = "decoded"
  /\ UNCHANGED <<value, encoded, reencoded, treeVars_but_pc>>

\* reencoded = CamerasFile.build(decoded)
Reencode ==
  /\ pc = "decoded"
  /\ decoded.kind = "return"
  /\ reencoded' = CamerasFile_build(decoded.value)
  /\ pc' = "reencoded"
  /\ UNCHANGED <<value, encoded, decoded, treeVars_but_pc>>

NextCam ==
  \/ Encode
  \/ Decode
  \/ Reencode

SpecCam == InitCam /\ [][NextCam]_vars

Built == pc \in {"encoded", "decoded", "reencoded"}

\* the count in the header of a built file
HeaderCount(bytes) == Integer_parse(bytes, 5).value

\* the length of the records of cameras, one after another
RECURSIVE RecordsLength(_, _)
RecordsLength(cameras, i) ==
  IF i > Len(cameras) THEN 0
  ELSE 4 * Len(CameraFloats) + Len(cameras[i].name) + 1
         + RecordsLength(cameras, i + 1)

\* C3 as stated: build recomputes the count, so every value is built and
\* the header count is the number of records.
C3_CountRecomputedAsClaimed ==
  Built =>
    /\ encoded.kind = "return"
    /\ HeaderCount(encoded.value) = Len(value.cameras)

\* C3 amended: build writes the cameras_count it is given and fails when
\* that is absent or is not the number of cameras; whenever it succeeds the
\* header count is the number of records emitted.
C3_CountChecked ==
  Built =>
    IF "cameras_count" \notin DOMAIN value
      THEN encoded = Raise("KeyError")
    ELSE IF value.cameras_count # Len(value.cameras)
      THEN encoded = Raise("RangeError")
    ELSE /\ encoded.kind = "return"
         /\ HeaderCount(encoded.value) = Len(value.cameras)
         /\ Len(encoded.value) = 8 + RecordsLength(value.cameras, 1)

C3_Witness ==
  /\ Built
  /\ encoded.kind = "return"
  /\ Len(value.cameras) = 2
  /\ value.cameras[1].name # value.cameras[2].name

NoTerminatorInNames ==
  \A i \in 1..Len(value.cameras) : 0 \notin Range(value.cameras[i].name)

\* C6 as stated: every built file parses and builds again to the same bytes.
C6_RoundTripAsClaimed ==
  /\ pc = "decoded" => decoded.kind = "return"
  /\ pc = "reencoded" => reencoded = encoded

\* what build and parse make of a float
Rounded(x) == Float_parse(Float_build(x).value, 1).value

\* C6 amended: for a value whose names hold no terminator byte and that
\* is built, parsing the bytes reads the header count and that many
\* records in field order, and building the result gives the same bytes.
C6_RoundTrip ==
  (NoTerminatorInNames /\ pc \in {"decoded", "reencoded"}) =>
    /\ decoded.kind = "return"
    /\ decoded.value.version = value.version
    /\ decoded.value.cameras_count = Len(value.cameras)
    /\ Len(decoded.value.cameras) = Len(value.cameras)
    /\ \A i \in 1..Len(value.cameras) :
         /\ decoded.value.cameras[i].name = value.cameras[i].name
         /\ \A k \in 1..Len(CameraFloats) :
              decoded.value.cameras[i][CameraFloats[k]]
                = Rounded(value.cameras[i][CameraFloats[k]])
    /\ pc = "reencoded" => reencoded = encoded

C6_Witness ==
  /\ pc = "reencoded"
  /\ NoTerminatorInNames
  /\ reencoded = encoded
  /\ Len(value.cameras) = 2
  /\ value.cameras[1].target_x = [int |-> 16777217]
  /\ decoded.value.cameras[1].target_x = [int |-> 16777216]
  /\ value.cameras[2].name = <<97, 98>>

====
